---- MODULE Spec2Model ----
(***************************************************************************)
(* T3S: createSignal / createComputed (src/t3s.js).                        *)
(*                                                                         *)
(* A signal is a closure over `value`, `subscribers`, `readers` and        *)
(* `checkers`.  The model keeps one entry per created signal in sequences  *)
(* indexed by creation order, the document as a fixed list of elements     *)
(* with their innerText and their 'visible' class token, and a trace of    *)
(* what the last top-level call did (callbacks invoked, computeFn runs,    *)
(* element writes), in order.  Every call is synchronous, so one action    *)
(* is one top-level call with its whole notification fan-out.              *)
(***************************************************************************)
EXTENDS Integers, Sequences, FiniteSets, TLC

(***************************************************************************)
(* Bounds of the model.                                                    *)
(***************************************************************************)
MaxSize == 5
MaxDeps == 2
MaxNum == 1
MaxStrLen == 1
MaxPlain == 1
MaxComputed == 1
MaxSubscriptions == 2
MaxResubscriptions == 1
MaxChain == 2

(***************************************************************************)
(* JavaScript values.  One record shape for all of them, so that any two   *)
(* values can be compared.                                                 *)
(***************************************************************************)
Num(n) == [t |-> "number", n |-> n, s |-> ""]
Str(s) == [t |-> "string", n |-> 0, s |-> s]
Bool(b) == [t |-> "boolean", n |-> IF b THEN 1 ELSE 0, s |-> ""]
Null == [t |-> "null", n |-> 0, s |-> ""]
Undefined == [t |-> "undefined", n |-> 0, s |-> ""]
NaN == [t |-> "NaN", n |-> 0, s |-> ""]

\* The values callers pass to createSignal and set.
Values ==
  { Num(0), Num(-1), Num(42), Str(""), Str("0"), Null }

Digit(d) ==
  CASE d = 0 -> "0" [] d = 1 -> "1" [] d = 2 -> "2" [] d = 3 -> "3"
    [] d = 4 -> "4" [] d = 5 -> "5" [] d = 6 -> "6" [] d = 7 -> "7"
    [] d = 8 -> "8" [] d = 9 -> "9"

RECURSIVE NatToString(_)
NatToString(n) ==
  IF n < 10 THEN Digit(n) ELSE NatToString(n \div 10) \o Digit(n % 10)

\* Number::toString for the integers.
IntToString(n) == IF n < 0 THEN "-" \o NatToString(0 - n) ELSE NatToString(n)

\* `${value}`: the template literal of notify applies ToString.
TemplateLiteral(v) ==
  CASE v.t = "number" -> IntToString(v.n)
    [] v.t = "string" -> v.s
    [] v.t = "boolean" -> (IF v.n = 1 THEN "true" ELSE "false")
    [] v.t = "null" -> "null"
    [] v.t = "undefined" -> "undefined"
    [] v.t = "NaN" -> "NaN"

\* !!value: ToBoolean.
ToBoolean(v) ==
  CASE v.t = "number" -> v.n # 0
    [] v.t = "string" -> v.s # ""
    [] v.t = "boolean" -> v.n = 1
    [] v.t = "null" -> FALSE
    [] v.t = "undefined" -> FALSE
    [] v.t = "NaN" -> FALSE

DigitValue(c) ==
  CASE c = "0" -> 0 [] c = "1" -> 1 [] c = "2" -> 2 [] c = "3" -> 3
    [] c = "4" -> 4 [] c = "5" -> 5 [] c = "6" -> 6 [] c = "7" -> 7
    [] c = "8" -> 8 [] c = "9" -> 9 [] OTHER -> -1

RECURSIVE AllDigits(_)
AllDigits(s) ==
  IF Len(s) = 0 THEN TRUE
  ELSE DigitValue(SubSeq(s, 1, 1)) >= 0 /\ AllDigits(SubSeq(s, 2, Len(s)))

RECURSIVE DigitsValue(_, _)
DigitsValue(s, acc) ==
  IF Len(s) = 0 THEN acc
  ELSE DigitsValue(SubSeq(s, 2, Len(s)), 10 * acc + DigitValue(SubSeq(s, 1, 1)))

\* ToNumber of a string: "" is 0, a decimal literal its value, anything else NaN.
StringToNumber(s) ==
  IF Len(s) = 0 THEN Num(0)
  ELSE IF AllDigits(s) THEN Num(DigitsValue(s, 0))
  ELSE IF Len(s) > 1 /\ SubSeq(s, 1, 1) = "-" /\ AllDigits(SubSeq(s, 2, Len(s)))
    THEN Num(0 - DigitsValue(SubSeq(s, 2, Len(s)), 0))
  ELSE NaN

ToNumber(v) ==
  CASE v.t = "number" -> v
    [] v.t = "string" -> StringToNumber(v.s)
    [] v.t = "boolean" -> Num(v.n)
    [] v.t = "null" -> Num(0)
    [] v.t = "undefined" -> NaN
    [] v.t = "NaN" -> NaN

\* a > b on primitives that are not both strings: compare as numbers, NaN is
\* greater than nothing.
GreaterThan(a, b) ==
  LET x == ToNumber(a)
      y == ToNumber(b)
  IN  Bool(x.t = "number" /\ y.t = "number" /\ x.n > y.n)

\* a + b: string concatenation when either side is a string, else numbers.
Plus(a, b) ==
  IF a.t = "string" \/ b.t = "string" THEN Str(TemplateLiteral(a) \o TemplateLiteral(b))
  ELSE LET x == ToNumber(a)
           y == ToNumber(b)
       IN  IF x.t = "number" /\ y.t = "number" THEN Num(x.n + y.n) ELSE NaN

(***************************************************************************)
(* The document: the elements createSignal can bind, in document order.    *)
(***************************************************************************)
Document ==
  << [attr |-> "data-signal-read", name |-> "count"],
     [attr |-> "data-signal-checker", name |-> "count"],
     [attr |-> "data-signal-read", name |-> "isCountPositive"],
     [attr |-> "data-signal-checker", name |-> "isCountPositive"],
     [attr |-> "data-signal-check", name |-> "count"] >>

Elements == 1..Len(Document)

RECURSIVE Matching(_, _, _, _)
Matching(present, attr, name, e) ==
  IF e > Len(Document) THEN <<>>
  ELSE (IF e \in present /\ Document[e].attr = attr /\ Document[e].name = name
          THEN <<e>> ELSE <<>>)
       \o Matching(present, attr, name, e + 1)

\* A query that finds the elements whether or not they are in the document yet.
QueryAnyElement(present, attr, name) == Matching(Elements, attr, name, 1)

\* document.querySelectorAll(`[attr="name"]`): a static list of the elements
\* that are in the document at the time of the call, in document order.
QuerySelectorAll(present, attr, name) == Matching(present, attr, name, 1)

(***************************************************************************)
(* Callbacks.  UserCallbacks are the functions callers pass to subscribe;  *)
(* a recompute closure is the arrow function createComputed subscribes to  *)
(* one entry of `dependencies`: it captures the computed signal (target),  *)
(* computeFn and, through computeFn, the dependencies.  Two callbacks are  *)
(* the same reference iff their records are equal.                         *)
(***************************************************************************)
UserCallbacks == {1, 2}

UserCallback(id) ==
  [k |-> "user", id |-> id, target |-> 0, idx |-> 0, fn |-> "", deps |-> <<>>]

\* One arrow function made outside the forEach and subscribed to every entry.
RecomputeShared(target, idx, fn, deps) ==
  [k |-> "recompute", id |-> 0, target |-> target, idx |-> 0, fn |-> fn,
   deps |-> deps]

Recompute(target, idx, fn, deps) ==
  [k |-> "recompute", id |-> 0, target |-> target, idx |-> idx, fn |-> fn,
   deps |-> deps]

NoCallback ==
  [k |-> "none", id |-> 0, target |-> 0, idx |-> 0, fn |-> "", deps |-> <<>>]

\* Callbacks that do more than observe their argument.  Each closes over the
\* signal `target` it was written for:
\*   stop       const stop = target.subscribe(v => { stop(); })
\*   subscribe  v => { target.subscribe(g); }       g the user callback `id`
\*   set        v => { if (v) target.set(0); }
\*   throw      v => { throw new Error(); }
EffectKinds == {"stop", "subscribe", "set", "throw"}

EffectCallback(k, id, target) ==
  [k |-> k, id |-> id, target |-> target, idx |-> 0, fn |-> "", deps |-> <<>>]

\* The mark a Set's entry list keeps in the place of a deleted entry while a
\* forEach may still be walking the list.
Empty ==
  [k |-> "empty", id |-> 0, target |-> 0, idx |-> 0, fn |-> "", deps |-> <<>>]

\* The compute functions callers pass to createComputed, each reading its
\* dependencies through get():
\*   isPositive  () => d1.get() > 0
\*   and         () => d1.get() && ... && dn.get()
ComputeFns == {"isPositive", "and"}

\* The functions callers pass to update:  c => c + 1.
UpdateFns == {"increment"}

ApplyUpdateFn(fn, v) ==
  CASE fn = "increment" -> Plus(v, Num(1))

(***************************************************************************)
(* The heap: every signal's closure variables, the elements' state and the *)
(* trace of the running top-level call.  The events of the trace are       *)
(*   notify     a pass of sig starts, with the value v                     *)
(*   call       the pass invokes subscriber cb with the argument v         *)
(*   compute    computeFn of the computed signal sig runs                  *)
(*   subscribe  a callback subscribes cb to sig; v tells whether the Set   *)
(*              did not hold cb yet                                        *)
(*   throw      callback cb throws                                         *)
(*   text       the pass writes s to innerText of el                       *)
(*   class      the pass toggles 'visible' of el with force v              *)
(*   return     the pass of sig has run to its end                         *)
(***************************************************************************)
\* pass: the notification pass that did it (the position of the pass's
\* "notify" event in the trace), 0 outside any pass.
Event(k, sig, cb, el, v, s) ==
  [k |-> k, sig |-> sig, cb |-> cb, el |-> el, v |-> v, s |-> s, pass |-> 0]

Log(h, e) ==
  [h EXCEPT !.trace =
     Append(@, [e EXCEPT !.pass = IF h.passes = <<>> THEN 0 ELSE Head(h.passes)])]

\* notify with every fn(value) in a try/catch: no exception leaves a callback.
NeverThrown(h) == FALSE

\* An exception is on its way up the stack: nothing has been done since it
\* was thrown, for nothing catches it.
Thrown(h) == h.trace # <<>> /\ h.trace[Len(h.trace)].k = "throw"

\* get(): return value.
Get(h, sig) == h.value[sig]

RECURSIVE AndOver(_, _, _)
AndOver(h, deps, i) ==
  IF i = Len(deps) \/ ~ToBoolean(Get(h, deps[i])) THEN Get(h, deps[i])
  ELSE AndOver(h, deps, i + 1)

\* computeFn(): evaluated against the dependencies' current values.
ComputeFn(h, fn, deps) ==
  CASE fn = "isPositive" -> GreaterThan(Get(h, deps[1]), Num(0))
    [] fn = "and" -> AndOver(h, deps, 1)

RECURSIVE WriteReaders(_, _, _)
\* readers.forEach(reader => (reader.innerText = `${value}`))
WriteReaders(h, sig, i) ==
  IF i > Len(h.readers[sig]) THEN h
  ELSE LET el == h.readers[sig][i]
           text == TemplateLiteral(h.value[sig])
       IN  WriteReaders(
             Log([h EXCEPT !.innerText[el] = text],
                 Event("text", sig, NoCallback, el, h.value[sig], text)),
             sig, i + 1)

\* classList.toggle('visible') without the force argument flips the token.
ToggleWithoutForce(present, force) == ~present

\* classList.toggle('visible', force): add the token when force, else remove it.
ClassListToggle(present, force) == force

RECURSIVE WriteCheckers(_, _, _)
\* checkers.forEach(checker => checker.classList.toggle('visible', !!value))
WriteCheckers(h, sig, i) ==
  IF i > Len(h.checkers[sig]) THEN h
  ELSE LET el == h.checkers[sig][i]
           force == ToBoolean(h.value[sig])
       IN  WriteCheckers(
             Log([h EXCEPT !.visible[el] = ClassListToggle(@, force)],
                 Event("class", sig, NoCallback, el, Bool(force), "")),
             sig, i + 1)

\* Set.prototype.add that appends whether or not the reference is held.
ListAdd(seq, cb) == Append(seq, cb)

\* Set.prototype.add: appends to the entry list unless the same reference is
\* already held.
SetAdd(seq, cb) ==
  IF \E i \in 1..Len(seq) : seq[i] = cb THEN seq ELSE Append(seq, cb)

\* Set.prototype.clear in place of delete: removes every reference.
SetClear(seq, cb) == <<>>

\* An array's splice in place of Set.prototype.delete: the entries after the
\* removed one move down one position under a walk in progress.
ArraySplice(seq, cb) == SelectSeq(seq, LAMBDA x : x # cb)

\* Set.prototype.delete: the entry that holds the reference, if any, is
\* replaced by the empty mark; the other entries keep their positions.
SetDelete(seq, cb) ==
  [i \in 1..Len(seq) |-> IF seq[i] = cb THEN Empty ELSE seq[i]]

\* subscribe that replays the current value to fn at once.
SubscribeAndReplay(h, sig, cb) ==
  Log([h EXCEPT !.subscribers[sig] = SetAdd(@, cb)],
      Event("call", sig, cb, 0, h.value[sig], ""))

\* subscribe(fn) { subscribers.add(fn); return () => subscribers.delete(fn); }
Subscribe(h, sig, cb) == [h EXCEPT !.subscribers[sig] = SetAdd(@, cb)]

\* A handle that deletes fn from the Set of every signal.
UnsubscribeEverywhere(h, sig, cb) ==
  [h EXCEPT !.subscribers =
     [t \in DOMAIN h.subscribers |-> SetDelete(h.subscribers[t], cb)]]

\* The closure subscribe returns: () => subscribers.delete(fn).
Unsubscribe(h, sig, cb) == [h EXCEPT !.subscribers[sig] = SetDelete(@, cb)]

\* The heap between two top-level calls: no pass is running, so no walk can
\* meet an empty mark and the entry lists are the entries they hold.
Settled(h) ==
  [h EXCEPT
     !.subscribers =
       [sig \in DOMAIN h.subscribers |->
          SelectSeq(h.subscribers[sig], LAMBDA x : x # Empty)],
     !.passes = <<>>]

RECURSIVE Notify(_, _)
RECURSIVE ForEachSubscriber(_, _, _)
RECURSIVE Invoke(_, _, _, _)
RECURSIVE SetValue(_, _, _)

\* fn(value) for one subscriber: a user callback only observes its argument;
\* a recompute closure ignores it and runs signal.set(computeFn()); the
\* callbacks with effects do what their bodies say.
Invoke(h, sig, cb, v) ==
  LET called == Log(h, Event("call", sig, cb, 0, v, ""))
  IN  CASE cb.k = "user" -> called
        [] cb.k = "recompute" ->
             SetValue(
               Log(called, Event("compute", cb.target, cb, 0, Undefined, "")),
               cb.target, ComputeFn(called, cb.fn, cb.deps))
        [] cb.k = "stop" -> Unsubscribe(called, cb.target, cb)
        [] cb.k = "subscribe" ->
             Subscribe(
               Log(called,
                   Event("subscribe", cb.target, UserCallback(cb.id), 0,
                         Bool(\A i \in 1..Len(h.subscribers[cb.target]) :
                                h.subscribers[cb.target][i] # UserCallback(cb.id)),
                         "")),
               cb.target, UserCallback(cb.id))
        [] cb.k = "set" ->
             IF ToBoolean(v) THEN SetValue(called, cb.target, Num(0)) ELSE called
        [] cb.k = "throw" -> Log(called, Event("throw", sig, cb, 0, Undefined, ""))

RECURSIVE ForEachSubscriberSnapshot(_, _, _)
\* const v = value; subscribers.forEach(fn => fn(v)): every callback of the
\* pass gets the value the pass started with.
ForEachSubscriberSnapshot(h, sig, i) ==
  IF Thrown(h) \/ i > Len(h.subscribers[sig]) THEN h
  ELSE IF h.subscribers[sig][i] = Empty THEN ForEachSubscriberSnapshot(h, sig, i + 1)
  ELSE ForEachSubscriberSnapshot(
         Invoke(h, sig, h.subscribers[sig][i], h.trace[Head(h.passes)].v),
         sig, i + 1)

\* subscribers.forEach(fn => fn(value)): walks the live entry list by position,
\* entries appended during the walk included and empty marks skipped, and
\* reads the live `value` for each call.  A callback that throws ends it.
ForEachSubscriber(h, sig, i) ==
  IF Thrown(h) \/ i > Len(h.subscribers[sig]) THEN h
  ELSE IF h.subscribers[sig][i] = Empty THEN ForEachSubscriber(h, sig, i + 1)
  ELSE ForEachSubscriber(
         Invoke(h, sig, h.subscribers[sig][i], h.value[sig]), sig, i + 1)

\* notify that writes the readers and the checkers before it invokes the
\* subscribers.
NotifyTargetsFirst(h, sig) ==
  LET pass == Len(h.trace) + 1
      started == Log([h EXCEPT !.passes = <<pass>> \o @],
                     Event("notify", sig, NoCallback, 0, h.value[sig], ""))
      read == WriteReaders(started, sig, 1)
      flagged == WriteCheckers(read, sig, 1)
      subscribed == ForEachSubscriber(flagged, sig, 1)
  IN  IF Thrown(subscribed) THEN subscribed
      ELSE [Log(subscribed, Event("return", sig, NoCallback, 0, Undefined, ""))
              EXCEPT !.passes = Tail(@)]

\* notify: subscribers, then readers, then checkers; an exception out of the
\* subscribers leaves before the readers.
Notify(h, sig) ==
  LET pass == Len(h.trace) + 1
      started == Log([h EXCEPT !.passes = <<pass>> \o @],
                     Event("notify", sig, NoCallback, 0, h.value[sig], ""))
      subscribed == ForEachSubscriber(started, sig, 1)
      read == WriteReaders(subscribed, sig, 1)
      flagged == WriteCheckers(read, sig, 1)
  IN  IF Thrown(subscribed) THEN subscribed
      ELSE [Log(flagged, Event("return", sig, NoCallback, 0, Undefined, ""))
              EXCEPT !.passes = Tail(@)]

\* set that notifies without storing newValue.
SetWithoutStore(h, sig, newValue) == Notify(h, sig)

\* set that notifies before it stores newValue.
SetNotifiesFirst(h, sig, newValue) ==
  [Notify(h, sig) EXCEPT !.value[sig] = newValue]

\* set that returns early when newValue is the value it holds.
SetSkipsSameValue(h, sig, newValue) ==
  IF h.value[sig] = newValue THEN h
  ELSE Notify([h EXCEPT !.value[sig] = newValue], sig)

\* set(newValue) { value = newValue; notify(); }
SetValue(h, sig, newValue) == Notify([h EXCEPT !.value[sig] = newValue], sig)

\* update(fn) { value = fn(value); notify(); }
UpdateValue(h, sig, fn) ==
  Notify([h EXCEPT !.value[sig] = ApplyUpdateFn(fn, h.value[sig])], sig)

\* createSignal(name, initialValue): the new signal is the next index.
CreateSignal(h, name, initialValue) ==
  LET made == [h EXCEPT
                 !.value = Append(@, initialValue),
                 !.subscribers = Append(@, <<>>),
                 !.readers =
                   Append(@, QuerySelectorAll(h.present, "data-signal-read", name)),
                 !.checkers =
                   Append(@, QuerySelectorAll(h.present, "data-signal-checker", name))]
  IN  Notify(made, Len(made.value))

\* dependencies[0].subscribe(...) alone: the other dependencies are not subscribed.
SubscribeFirstDependencyOnly(h, target, fn, deps, i) ==
  Subscribe(h, deps[1], Recompute(target, 1, fn, deps))

RECURSIVE SubscribeDependenciesAndItself(_, _, _, _, _)
\* The computed signal made a dependency of itself: its set() runs its own
\* recompute closure.
SubscribeDependenciesAndItself(h, target, fn, deps, i) ==
  IF i > Len(deps) THEN Subscribe(h, target, Recompute(target, i, fn, deps))
  ELSE SubscribeDependenciesAndItself(
         Subscribe(h, deps[i], Recompute(target, i, fn, deps)),
         target, fn, deps, i + 1)

RECURSIVE SubscribeDependencies(_, _, _, _, _)
\* dependencies.forEach(dep => { dep.subscribe(() => signal.set(computeFn())); })
SubscribeDependencies(h, target, fn, deps, i) ==
  IF i > Len(deps) THEN h
  ELSE SubscribeDependencies(
         Subscribe(h, deps[i], Recompute(target, i, fn, deps)),
         target, fn, deps, i + 1)

\* createComputed that builds its signal without the initial computeFn().
CreateComputedUncomputed(h, name, fn, deps) ==
  LET made == CreateSignal(h, name, Undefined)
  IN  SubscribeDependencies(made, Len(made.value), fn, deps, 1)

\* createComputed(name, computeFn, dependencies)
CreateComputed(h, name, fn, deps) ==
  LET computed == Log(h, Event("compute", Len(h.value) + 1, NoCallback, 0, Undefined, ""))
      made == CreateSignal(computed, name, ComputeFn(h, fn, deps))
  IN  SubscribeDependencies(made, Len(made.value), fn, deps, 1)

RECURSIVE ManualSubscriptions(_, _, _, _, _)
\* README: dependencies.forEach(dep => { dep.subscribe(() => isCountPositive.set(computeFn())); })
ManualSubscriptions(h, target, fn, deps, i) ==
  IF i > Len(deps) THEN h
  ELSE ManualSubscriptions(
         Subscribe(h, deps[i], Recompute(target, i, fn, deps)),
         target, fn, deps, i + 1)

\* README: the same result by hand, createSignal(name, computeFn()) and one
\* subscription per dependency.
CreateByHand(h, name, fn, deps) ==
  LET computed == Log(h, Event("compute", Len(h.value) + 1, NoCallback, 0, Undefined, ""))
      made == CreateSignal(computed, name, ComputeFn(h, fn, deps))
  IN  ManualSubscriptions(made, Len(made.value), fn, deps, 1)

(***************************************************************************)
(* State.                                                                  *)
(***************************************************************************)
VARIABLES
  value,        \* value[sig]: the signal's `value`
  subscribers,  \* subscribers[sig]: its Set of callbacks, in insertion order
  readers,      \* readers[sig]: the elements captured by createSignal
  checkers,     \* checkers[sig]: the elements captured by createSignal
  innerText,    \* innerText[el]
  visible,      \* visible[el]: the element's classList holds 'visible'
  trace,        \* what the last top-level call did, in order
  methods,      \* methods[sig]: the keys of the object the caller got back
  computed,     \* computed[sig]: the computeFn and dependencies it was built from
  handles,      \* the unsubscribe closures callers hold
  last,         \* the last top-level call, its arguments and its result
  byHand,       \* the heap of the same calls with every computed signal built by hand
  present,      \* the elements that are in the document
  registrations,\* registrations[<<sig, cb>>]: the subscribe(cb) calls made on sig
                \* since the last call of a handle they returned
  stack         \* the passes that are running, the innermost first, when a
                \* call is followed step by step

vars ==
  << value, subscribers, readers, checkers, innerText, visible, trace,
     methods, computed, handles, last, byHand, present, registrations, stack >>

Heap ==
  [value |-> value, subscribers |-> subscribers, readers |-> readers,
   checkers |-> checkers, innerText |-> innerText, visible |-> visible,
   trace |-> <<>>, present |-> present, passes |-> <<>>]

Store(h) ==
  /\ value' = h.value
  /\ subscribers' = Settled(h).subscribers
  /\ readers' = h.readers
  /\ checkers' = h.checkers
  /\ innerText' = h.innerText
  /\ visible' = h.visible
  /\ trace' = h.trace

Signals == 1..Len(value)

\* A top-level call: arg is the value written, same whether it is identical
\* to the value it replaced.
Call(op, sig, arg, fn, cb, same) ==
  [op |-> op, sig |-> sig, arg |-> arg, fn |-> fn, cb |-> cb, same |-> same]

\* return { get() {...}, set(newValue) {...}, update(fn) {...}, subscribe(fn) {...} }
SignalMethods == {"get", "set", "update", "subscribe"}

\* createComputed returning the signal itself.
ComputedReturnsSignal == {"get", "set", "update", "subscribe"}

\* return { get: signal.get, subscribe: signal.subscribe }
ComputedMethods == {"get", "subscribe"}

Plain == [fn |-> "", deps |-> <<>>]

IsComputed(sig) == computed[sig].fn # ""

\* The size of the program built so far: a signal made by createSignal counts
\* 2, a computed signal 1, a subscription handle the caller holds 1.
Size ==
  Len(value) + Cardinality({sig \in Signals : ~IsComputed(sig)})
    + Cardinality(handles)

RECURSIVE DependencyLists(_)
\* The lists of n existing signals, in any order, repeats included.
DependencyLists(n) ==
  IF n = 0 THEN {<<>>}
  ELSE {Append(d, sig) : d \in DependencyLists(n - 1), sig \in Signals}

\* The dependency lists callers pass with computeFn.
Dependencies(fn) ==
  UNION {DependencyLists(n) : n \in 1..(IF fn = "isPositive" THEN 1 ELSE MaxDeps)}

\* The name callers give a signal: the README's count and isCountPositive.
NameOf(fn) == IF fn = "" THEN "count" ELSE "isCountPositive"

\* The values the model lets update produce.
Bounded(v) ==
  /\ v.t = "number" => v.n <= MaxNum
  /\ v.t = "string" => Len(v.s) <= MaxStrLen

Init ==
  /\ value = <<>>
  /\ subscribers = <<>>
  /\ readers = <<>>
  /\ checkers = <<>>
  /\ innerText = [e \in Elements |-> ""]
  /\ visible = [e \in Elements |-> FALSE]
  /\ trace = <<>>
  /\ methods = <<>>
  /\ computed = <<>>
  /\ handles = {}
  /\ last = Call("none", 0, Undefined, "", NoCallback, FALSE)
  /\ present = Elements
  /\ registrations = [p \in {} |-> 0]
  /\ stack = <<>>
  /\ byHand = Heap

(***************************************************************************)
(* The top-level calls.                                                    *)
(***************************************************************************)
\* const s = createSignal(name, initialValue)
CreateSignalCall(name, initialValue) ==
  /\ Size + 2 <= MaxSize
  /\ Store(CreateSignal(Heap, name, initialValue))
  /\ byHand' = CreateSignal([byHand EXCEPT !.trace = <<>>], name, initialValue)
  /\ methods' = Append(methods, SignalMethods)
  /\ computed' = Append(computed, Plain)
  /\ last' = Call("createSignal", Len(value) + 1, initialValue, "", NoCallback,
                  FALSE)
  /\ UNCHANGED << handles, present, registrations, stack >>

\* const c = createComputed(name, computeFn, dependencies)
CreateComputedCall(name, fn, deps) ==
  /\ Size + 1 <= MaxSize
  /\ Store(CreateComputed(Heap, name, fn, deps))
  /\ byHand' = CreateByHand([byHand EXCEPT !.trace = <<>>], name, fn, deps)
  /\ methods' = Append(methods, ComputedMethods)
  /\ computed' = Append(computed, [fn |-> fn, deps |-> deps])
  /\ last' = Call("createComputed", Len(value) + 1, ComputeFn(Heap, fn, deps), fn,
                  NoCallback, FALSE)
  /\ UNCHANGED << handles, present, registrations, stack >>

\* s.set(newValue)
SetCall(sig, newValue) ==
  /\ "set" \in methods[sig]
  /\ Store(SetValue(Heap, sig, newValue))
  /\ byHand' = SetValue([byHand EXCEPT !.trace = <<>>], sig, newValue)
  /\ last' = Call("set", sig, newValue, "", NoCallback, newValue = value[sig])
  /\ UNCHANGED << methods, computed, handles, present, registrations, stack >>

\* s.update(fn)
UpdateCall(sig, fn) ==
  /\ "update" \in methods[sig]
  /\ Bounded(ApplyUpdateFn(fn, value[sig]))
  /\ Store(UpdateValue(Heap, sig, fn))
  /\ byHand' = UpdateValue([byHand EXCEPT !.trace = <<>>], sig, fn)
  /\ last' = Call("update", sig, ApplyUpdateFn(fn, value[sig]), fn, NoCallback,
                  ApplyUpdateFn(fn, value[sig]) = value[sig])
  /\ UNCHANGED << methods, computed, handles, present, registrations, stack >>

\* const stop = s.subscribe(fn)
SubscribeCall(sig, id) ==
  /\ "subscribe" \in methods[sig]
  /\ <<sig, id>> \notin handles => Size + 1 <= MaxSize
  /\ Store(Subscribe(Heap, sig, UserCallback(id)))
  /\ byHand' = Subscribe([byHand EXCEPT !.trace = <<>>], sig, UserCallback(id))
  /\ handles' = handles \cup {<<sig, id>>}
  /\ last' = Call("subscribe", sig, Undefined, "", UserCallback(id), FALSE)
  /\ UNCHANGED << methods, computed, present, registrations, stack >>

\* stop()
UnsubscribeCall(sig, id) ==
  /\ <<sig, id>> \in handles
  /\ Store(Unsubscribe(Heap, sig, UserCallback(id)))
  /\ byHand' = Settled(Unsubscribe([byHand EXCEPT !.trace = <<>>], sig,
                                   UserCallback(id)))
  /\ last' = Call("unsubscribe", sig, Undefined, "", UserCallback(id), FALSE)
  /\ UNCHANGED << methods, computed, handles, present, registrations, stack >>

Next ==
  \/ \E v \in Values : CreateSignalCall(NameOf(""), v)
  \/ \E fn \in ComputeFns :
       \E deps \in Dependencies(fn) : CreateComputedCall(NameOf(fn), fn, deps)
  \/ \E sig \in Signals, v \in Values : SetCall(sig, v)
  \/ \E sig \in Signals, fn \in UpdateFns : UpdateCall(sig, fn)
  \/ \E sig \in Signals, id \in UserCallbacks : SubscribeCall(sig, id)
  \/ \E sig \in Signals, id \in UserCallbacks : UnsubscribeCall(sig, id)

Spec == Init /\ [][Next]_vars

(***************************************************************************)
(* Reading the trace of the last top-level call.                           *)
(***************************************************************************)
Writes == {"createSignal", "createComputed", "set", "update"}

\* The callbacks the passes of sig invoked, in order.
Invoked(sig) == SelectSeq(trace, LAMBDA e : e.k = "call" /\ e.sig = sig)

\* How often cb was invoked by a pass of sig.
TimesInvoked(sig, cb) ==
  Len(SelectSeq(trace, LAMBDA e : e.k = "call" /\ e.sig = sig /\ e.cb = cb))

\* How many notification passes sig ran.
TimesNotified(sig) ==
  Len(SelectSeq(trace, LAMBDA e : e.k = "notify" /\ e.sig = sig))

\* How often the computeFn of sig ran.
TimesComputed(sig) ==
  Len(SelectSeq(trace, LAMBDA e : e.k = "compute" /\ e.sig = sig))

IsSubscribed(sig, cb) == \E i \in 1..Len(subscribers[sig]) : subscribers[sig][i] = cb

\* The notification passes of the last top-level call, each named by the
\* position of its "notify" event.
Passes == {p \in 1..Len(trace) : trace[p].k = "notify"}

\* What pass p did itself, in order: the subscribers it invoked and the
\* elements it wrote.
StepsOf(p) ==
  SelectSeq(trace, LAMBDA e : e.pass = p /\ e.k \in {"call", "text", "class"})

CallsOf(p) == SelectSeq(trace, LAMBDA e : e.pass = p /\ e.k = "call")

\* How often pass p invoked cb.
CallsIn(p, cb) ==
  Len(SelectSeq(trace, LAMBDA e : e.pass = p /\ e.k = "call" /\ e.cb = cb))

\* Pass p wrote (k = "text") or flagged (k = "class") element el.
WroteIn(p, k, el) ==
  \E i \in 1..Len(trace) : trace[i].pass = p /\ trace[i].k = k /\ trace[i].el = el

\* Pass p did not run to its end.
Aborted(p) == ~\E i \in 1..Len(trace) : trace[i].k = "return" /\ trace[i].pass = p

\* The last top-level call ended in an exception.
CallThrew == trace # <<>> /\ trace[Len(trace)].k = "throw"

\* hideReadersStyle: *[data-signal-checker]:not(.visible) { display: none; }
\* is the one rule that hides an element.
Hidden(el) == Document[el].attr = "data-signal-checker" /\ ~visible[el]

\* The name the signal was created with.
NameOfSignal(sig) == NameOf(computed[sig].fn)

(***************************************************************************)
(* The same program with callbacks that call back into the signals.        *)
(***************************************************************************)
\* The values callers write here.
EffectValues == {Num(0), Num(1)}

\* The signals a callback subscribed to sig may set: sig itself, or the
\* dependencies of a computed sig, when they have a set.
Settable(sig) ==
  {t \in Signals :
     /\ "set" \in methods[t]
     /\ t = sig \/ \E i \in 1..Len(computed[sig].deps) : computed[sig].deps[i] = t}

\* The callbacks callers subscribe to sig: user callback 2 is the one the
\* "subscribe" callback registers.
CallbacksFor(sig) ==
  {UserCallback(1), EffectCallback("stop", 0, sig), EffectCallback("throw", 0, sig),
   EffectCallback("subscribe", 2, sig)}
    \cup {EffectCallback("set", 0, t) : t \in Settable(sig)}

\* The subscribe calls made on sig with cb since cb was last added to its Set.
Registered(sig, cb) ==
  IF <<sig, cb>> \in DOMAIN registrations THEN registrations[<<sig, cb>>] ELSE 0

\* The subscribe calls that found their callback registered already.
Resubscriptions ==
  Cardinality({p \in DOMAIN registrations : registrations[p] > 1})

\* registrations with <<sig, cb>> counted n times, for the callbacks the
\* Sets of h hold.
Register(h, sig, cb, n) ==
  LET held(p) ==
        \E i \in 1..Len(h.subscribers[p[1]]) : h.subscribers[p[1]][i] = p[2]
      pairs == {p \in DOMAIN registrations \cup {<<sig, cb>>} : held(p)}
  IN  [p \in pairs |-> IF p = <<sig, cb>> THEN n ELSE registrations[p]]

InitEffects ==
  /\ value = <<>>
  /\ subscribers = <<>>
  /\ readers = <<>>
  /\ checkers = <<>>
  /\ innerText = [e \in Elements |-> ""]
  /\ visible = [e \in Elements |-> FALSE]
  /\ trace = <<>>
  /\ methods = <<>>
  /\ computed = <<>>
  /\ handles = {}
  /\ last = Call("none", 0, Undefined, "", NoCallback, FALSE)
  /\ present = Elements
  /\ registrations = [p \in {} |-> 0]
  /\ stack = <<>>
  /\ byHand = Heap

\* const s = createSignal(name, initialValue)
CreateSignalEffects(name, initialValue) ==
  /\ Cardinality({sig \in Signals : ~IsComputed(sig)}) < MaxPlain
  /\ Store(CreateSignal(Heap, name, initialValue))
  /\ methods' = Append(methods, SignalMethods)
  /\ computed' = Append(computed, Plain)
  /\ last' = Call("createSignal", Len(value) + 1, initialValue, "", NoCallback,
                  FALSE)
  /\ UNCHANGED << handles, byHand, present, registrations, stack >>

\* const c = createComputed(name, computeFn, dependencies)
CreateComputedEffects(name, fn, deps) ==
  /\ Cardinality({sig \in Signals : IsComputed(sig)}) < MaxComputed
  /\ Store(CreateComputed(Heap, name, fn, deps))
  /\ methods' = Append(methods, ComputedMethods)
  /\ computed' = Append(computed, [fn |-> fn, deps |-> deps])
  /\ last' = Call("createComputed", Len(value) + 1, ComputeFn(Heap, fn, deps), fn,
                  NoCallback, FALSE)
  /\ UNCHANGED << handles, byHand, present, registrations, stack >>

\* s.set(newValue): an exception a callback throws comes out of the call.
SetEffects(sig, newValue) ==
  /\ "set" \in methods[sig]
  /\ Store(SetValue(Heap, sig, newValue))
  /\ registrations' = Register(SetValue(Heap, sig, newValue), sig, NoCallback, 0)
  /\ last' = Call("set", sig, newValue, "", NoCallback, newValue = value[sig])
  /\ UNCHANGED << methods, computed, handles, byHand, present, stack >>

\* s.update(fn)
UpdateEffects(sig, fn) ==
  /\ "update" \in methods[sig]
  /\ Bounded(ApplyUpdateFn(fn, value[sig]))
  /\ Store(UpdateValue(Heap, sig, fn))
  /\ registrations' = Register(UpdateValue(Heap, sig, fn), sig, NoCallback, 0)
  /\ last' = Call("update", sig, ApplyUpdateFn(fn, value[sig]), fn, NoCallback,
                  ApplyUpdateFn(fn, value[sig]) = value[sig])
  /\ UNCHANGED << methods, computed, handles, byHand, present, stack >>

\* const stop = s.subscribe(fn): same tells whether fn was registered already.
SubscribeEffects(sig, cb) ==
  /\ "subscribe" \in methods[sig]
  /\ IF IsSubscribed(sig, cb)
       THEN Registered(sig, cb) = 1 /\ Resubscriptions < MaxResubscriptions
       ELSE <<sig, cb>> \notin handles => Cardinality(handles) < MaxSubscriptions
  /\ Store(Subscribe(Heap, sig, cb))
  /\ handles' = handles \cup {<<sig, cb>>}
  /\ registrations' =
       Register(Subscribe(Heap, sig, cb), sig, cb,
                IF IsSubscribed(sig, cb) THEN Registered(sig, cb) + 1 ELSE 1)
  /\ last' = Call("subscribe", sig, Undefined, "", cb, IsSubscribed(sig, cb))
  /\ UNCHANGED << methods, computed, byHand, present, stack >>

\* stop(): same tells whether fn was no longer registered (delete found
\* nothing).  The caller drops a handle once it has found nothing to remove.
UnsubscribeEffects(sig, cb) ==
  /\ <<sig, cb>> \in handles
  /\ Store(Unsubscribe(Heap, sig, cb))
  /\ registrations' = Register(Settled(Unsubscribe(Heap, sig, cb)), sig, cb, 0)
  /\ handles' = IF IsSubscribed(sig, cb) THEN handles ELSE handles \ {<<sig, cb>>}
  /\ last' = Call("unsubscribe", sig, Undefined, "", cb, ~IsSubscribed(sig, cb))
  /\ UNCHANGED << methods, computed, byHand, present, stack >>

NextEffects ==
  \/ \E v \in EffectValues : CreateSignalEffects(NameOf(""), v)
  \/ \E dep \in Signals : CreateComputedEffects(NameOf("isPositive"), "isPositive", <<dep>>)
  \/ \E sig \in Signals, v \in EffectValues : SetEffects(sig, v)
  \/ \E sig \in Signals, fn \in UpdateFns : UpdateEffects(sig, fn)
  \/ \E sig \in Signals : \E cb \in CallbacksFor(sig) : SubscribeEffects(sig, cb)
  \/ \E h \in handles : UnsubscribeEffects(h[1], h[2])

SpecEffects == InitEffects /\ [][NextEffects]_vars

(***************************************************************************)
(* The program in a document that grows: the script starts with an empty   *)
(* body and elements are appended while it runs.                           *)
(***************************************************************************)
InitDocument ==
  /\ value = <<>>
  /\ subscribers = <<>>
  /\ readers = <<>>
  /\ checkers = <<>>
  /\ innerText = [e \in Elements |-> ""]
  /\ visible = [e \in Elements |-> FALSE]
  /\ trace = <<>>
  /\ methods = <<>>
  /\ computed = <<>>
  /\ handles = {}
  /\ last = Call("none", 0, Undefined, "", NoCallback, FALSE)
  /\ present = {}
  /\ registrations = [p \in {} |-> 0]
  /\ stack = <<>>
  /\ byHand = Heap

\* document.body.appendChild(el)
AppendChild(el) ==
  /\ el \notin present
  /\ present' = present \cup {el}
  /\ trace' = <<>>
  /\ last' = Call("appendChild", 0, Undefined, "", NoCallback, FALSE)
  /\ UNCHANGED << value, subscribers, readers, checkers, innerText, visible,
                  methods, computed, handles, byHand, registrations, stack >>

NextDocument ==
  \/ \E el \in Elements : AppendChild(el)
  \/ \E v \in EffectValues : CreateSignalEffects(NameOf(""), v)
  \/ \E dep \in Signals :
       CreateComputedEffects(NameOf("isPositive"), "isPositive", <<dep>>)
  \/ \E sig \in Signals, v \in EffectValues : SetEffects(sig, v)
  \/ \E sig \in Signals, fn \in UpdateFns : UpdateEffects(sig, fn)

SpecDocument == InitDocument /\ [][NextDocument]_vars

(***************************************************************************)
(* A set or update followed step by step: the passes that are running are  *)
(* frames of a stack, and one step is one turn of subscribers.forEach, the *)
(* whole of readers.forEach or the whole of checkers.forEach of the        *)
(* innermost pass.  The callbacks are the recompute closures and user      *)
(* callbacks that only observe; byHand holds what the call does as a       *)
(* whole.                                                                  *)
(***************************************************************************)
Frame(sig, pc, i, pass) == [sig |-> sig, pc |-> pc, i |-> i, pass |-> pass]

\* The heap in the middle of a call.
RunningHeap ==
  [Heap EXCEPT !.trace = trace,
               !.passes = [n \in 1..Len(stack) |-> stack[n].pass]]

InitSteps ==
  /\ value = <<>>
  /\ subscribers = <<>>
  /\ readers = <<>>
  /\ checkers = <<>>
  /\ innerText = [e \in Elements |-> ""]
  /\ visible = [e \in Elements |-> FALSE]
  /\ trace = <<>>
  /\ methods = <<>>
  /\ computed = <<>>
  /\ handles = {}
  /\ last = Call("none", 0, Undefined, "", NoCallback, FALSE)
  /\ present = Elements
  /\ registrations = [p \in {} |-> 0]
  /\ stack = <<>>
  /\ byHand = Heap

\* const c = createComputed(name, computeFn, dependencies)
CreateComputedSteps(name, fn, deps) ==
  /\ stack = <<>>
  /\ Cardinality({sig \in Signals : IsComputed(sig)}) < MaxChain
  /\ Store(CreateComputed(Heap, name, fn, deps))
  /\ methods' = Append(methods, ComputedMethods)
  /\ computed' = Append(computed, [fn |-> fn, deps |-> deps])
  /\ last' = Call("createComputed", Len(value) + 1, ComputeFn(Heap, fn, deps), fn,
                  NoCallback, FALSE)
  /\ UNCHANGED << handles, byHand, present, registrations, stack >>

\* value = ...; notify(): the call stores the value and enters notify.
EnterNotify(h, sig) ==
  Log([h EXCEPT !.passes = <<Len(h.trace) + 1>> \o @],
      Event("notify", sig, NoCallback, 0, h.value[sig], ""))

\* s.set(newValue), up to the first turn of its pass.
SetSteps(sig, newValue) ==
  /\ stack = <<>>
  /\ "set" \in methods[sig]
  /\ Store(EnterNotify([Heap EXCEPT !.value[sig] = newValue], sig))
  /\ stack' = <<Frame(sig, "subscribers", 1, 1)>>
  /\ byHand' = SetValue(Heap, sig, newValue)
  /\ last' = Call("set", sig, newValue, "", NoCallback, newValue = value[sig])
  /\ UNCHANGED << methods, computed, handles, present, registrations >>

\* s.update(fn), up to the first turn of its pass.
UpdateSteps(sig, fn) ==
  /\ stack = <<>>
  /\ "update" \in methods[sig]
  /\ Bounded(ApplyUpdateFn(fn, value[sig]))
  /\ Store(EnterNotify([Heap EXCEPT !.value[sig] = ApplyUpdateFn(fn, @)], sig))
  /\ stack' = <<Frame(sig, "subscribers", 1, 1)>>
  /\ byHand' = UpdateValue(Heap, sig, fn)
  /\ last' = Call("update", sig, ApplyUpdateFn(fn, value[sig]), fn, NoCallback,
                  ApplyUpdateFn(fn, value[sig]) = value[sig])
  /\ UNCHANGED << methods, computed, handles, present, registrations >>

\* subscribers.forEach(fn => fn(value)), one callback: a recompute closure
\* runs computeFn, stores the result and enters the notify of its signal.
ForEachTurn ==
  /\ stack # <<>>
  /\ stack[1].pc = "subscribers"
  /\ stack[1].i <= Len(subscribers[stack[1].sig])
  /\ LET sig == stack[1].sig
         cb == subscribers[sig][stack[1].i]
         called == Log(RunningHeap, Event("call", sig, cb, 0, value[sig], ""))
         computes == Log(called, Event("compute", cb.target, cb, 0, Undefined, ""))
         entered ==
           EnterNotify(
             [computes EXCEPT !.value[cb.target] = ComputeFn(called, cb.fn, cb.deps)],
             cb.target)
         turned == [stack EXCEPT ![1].i = @ + 1]
     IN  IF cb.k = "recompute"
           THEN /\ Store(entered)
                /\ stack' = <<Frame(cb.target, "subscribers", 1, Head(entered.passes))>>
                               \o turned
           ELSE /\ Store(called)
                /\ stack' = turned
  /\ UNCHANGED << methods, computed, handles, last, byHand, present, registrations >>

\* subscribers.forEach is over: readers.forEach(...)
ReadersTurn ==
  /\ stack # <<>>
  /\ stack[1].pc = "subscribers"
  /\ stack[1].i > Len(subscribers[stack[1].sig])
  /\ Store(WriteReaders(RunningHeap, stack[1].sig, 1))
  /\ stack' = [stack EXCEPT ![1].pc = "checkers"]
  /\ UNCHANGED << methods, computed, handles, last, byHand, present, registrations >>

\* checkers.forEach(...), and notify returns to the set that called it.
CheckersTurn ==
  /\ stack # <<>>
  /\ stack[1].pc = "checkers"
  /\ Store(Log(WriteCheckers(RunningHeap, stack[1].sig, 1),
               Event("return", stack[1].sig, NoCallback, 0, Undefined, "")))
  /\ stack' = Tail(stack)
  /\ UNCHANGED << methods, computed, handles, last, byHand, present, registrations >>

Step == ForEachTurn \/ ReadersTurn \/ CheckersTurn

NextSteps ==
  \/ \E v \in EffectValues : stack = <<>> /\ CreateSignalEffects(NameOf(""), v)
  \/ \E fn \in ComputeFns :
       \E deps \in Dependencies(fn) : CreateComputedSteps(NameOf(fn), fn, deps)
  \/ \E sig \in Signals :
       /\ stack = <<>>
       /\ ~IsSubscribed(sig, UserCallback(1))
       /\ SubscribeEffects(sig, UserCallback(1))
  \/ \E sig \in Signals, v \in EffectValues : SetSteps(sig, v)
  \/ \E sig \in Signals, fn \in UpdateFns : UpdateSteps(sig, fn)
  \/ ForEachTurn
  \/ ReadersTurn
  \/ CheckersTurn

\* The engine runs a call to its end: a pass that can take a step takes it.
SpecSteps == InitSteps /\ [][NextSteps]_vars /\ WF_vars(Step)

(***************************************************************************)
(* C1: get() right after set(newValue) returns newValue, and right after   *)
(* update(fn) returns fn applied to the value before the call.             *)
(***************************************************************************)
C1_GetReturnsLastWritten ==
  last.op \in {"set", "update"} => Get(Heap, last.sig) = last.arg

C1_Witness ==
  /\ last.op = "update"
  /\ last.fn = "increment"
  /\ Get(Heap, last.sig) = Num(0)
  /\ Len(subscribers[last.sig]) > 0

(***************************************************************************)
(* C2: every computed signal holds computeFn() of its dependencies'        *)
(* current values, after createComputed and after every later call.        *)
(***************************************************************************)
C2_ComputedIsCurrent ==
  \A sig \in Signals :
    IsComputed(sig) =>
      Get(Heap, sig) = ComputeFn(Heap, computed[sig].fn, computed[sig].deps)

C2_Witness ==
  /\ last.op = "set"
  /\ \E sig \in Signals :
       /\ computed[sig].fn = "and"
       /\ Len(computed[sig].deps) = 2
       /\ ~IsComputed(computed[sig].deps[1])
       /\ IsComputed(computed[sig].deps[2])
       /\ Get(Heap, sig) = Bool(TRUE)

(***************************************************************************)
(* C3: subscribe(fn) itself invokes nothing, and a set/update of the       *)
(* signal invokes every callback subscribed to it with the new value.      *)
(***************************************************************************)
C3_NoReplayThenCalled ==
  /\ last.op = "subscribe" => trace = <<>>
  /\ last.op \in {"set", "update"} =>
       \A id \in UserCallbacks :
         IsSubscribed(last.sig, UserCallback(id)) =>
           \E i \in 1..Len(trace) :
             /\ trace[i].k = "call"
             /\ trace[i].sig = last.sig
             /\ trace[i].cb = UserCallback(id)
             /\ trace[i].v = last.arg

C3_Witness ==
  /\ last.op = "set"
  /\ last.arg = Num(42)
  /\ IsSubscribed(last.sig, UserCallback(1))
  /\ TimesInvoked(last.sig, UserCallback(1)) = 1

(***************************************************************************)
(* C4: once the handle subscribe(fn) returned has been called, a set or    *)
(* update of that signal no longer invokes fn; the call of the handle      *)
(* leaves every other registration of every signal as it was, and the      *)
(* callbacks still registered are each invoked once, in their order, with  *)
(* the new value.                                                          *)
(***************************************************************************)
C4_Others(seq, cb) == SelectSeq(seq, LAMBDA x : x # cb)

C4_RemovedNotInvoked ==
  \A h \in handles :
    ~IsSubscribed(h[1], UserCallback(h[2])) =>
      TimesInvoked(h[1], UserCallback(h[2])) = 0

C4_RegisteredInvoked ==
  /\ Len(Invoked(last.sig)) = Len(subscribers[last.sig])
  /\ \A i \in 1..Len(subscribers[last.sig]) :
       /\ Invoked(last.sig)[i].cb = subscribers[last.sig][i]
       /\ subscribers[last.sig][i].k = "user" => Invoked(last.sig)[i].v = last.arg

C4_UnsubscribeRemovesOnlyThat ==
  [][/\ last'.op = "unsubscribe" =>
          /\ \A i \in 1..Len(subscribers'[last'.sig]) :
               subscribers'[last'.sig][i] # last'.cb
          /\ \A sig \in Signals :
               C4_Others(subscribers'[sig], last'.cb)
                 = C4_Others(subscribers[sig], last'.cb)
          /\ \A sig \in Signals \ {last'.sig} : subscribers'[sig] = subscribers[sig]
     /\ last'.op \in {"set", "update"} =>
          C4_RemovedNotInvoked' /\ C4_RegisteredInvoked']_vars

C4_Witness ==
  /\ last.op = "set"
  /\ <<last.sig, 1>> \in handles
  /\ ~IsSubscribed(last.sig, UserCallback(1))
  /\ IsSubscribed(last.sig, UserCallback(2))
  /\ TimesInvoked(last.sig, UserCallback(2)) = 1
  /\ TimesInvoked(last.sig, UserCallback(1)) = 0

(***************************************************************************)
(* C5: when createSignal, createComputed, set or update returns, every     *)
(* display target of the signal shows the string form of its value; and    *)
(* for every signal notified during the call, a target it was the last to  *)
(* write shows the string form of its value.                               *)
(***************************************************************************)
C5_LastWriter(el) ==
  LET writes == SelectSeq(trace, LAMBDA e : e.k = "text" /\ e.el = el)
  IN  IF writes = <<>> THEN 0 ELSE writes[Len(writes)].sig

C5_Shows(sig) ==
  \A i \in 1..Len(readers[sig]) :
    innerText[readers[sig][i]] = TemplateLiteral(Get(Heap, sig))

C5_DisplayShowsValue ==
  /\ last.op \in Writes => C5_Shows(last.sig)
  /\ \A sig \in Signals :
       \A i \in 1..Len(readers[sig]) :
         C5_LastWriter(readers[sig][i]) = sig =>
           innerText[readers[sig][i]] = TemplateLiteral(Get(Heap, sig))
  /\ last.op \in Writes /\ last.arg = Num(42) => innerText[readers[last.sig][1]] = "42"
  /\ last.op \in Writes /\ last.arg = Num(-1) => innerText[readers[last.sig][1]] = "-1"
  /\ last.op \in Writes /\ last.arg = Null => innerText[readers[last.sig][1]] = "null"
  /\ last.op \in Writes /\ last.arg = Bool(FALSE) =>
       innerText[readers[last.sig][1]] = "false"

C5_Witness ==
  /\ last.op = "set"
  /\ last.arg = Num(42)
  /\ Len(readers[last.sig]) = 1
  /\ innerText[readers[last.sig][1]] = "42"
  /\ \E sig \in Signals :
       /\ IsComputed(sig)
       /\ TimesNotified(sig) > 0
       /\ innerText[readers[sig][1]] = "true"

(***************************************************************************)
(* C6: when createSignal, createComputed, set or update returns, every     *)
(* visibility target of the signal carries 'visible' iff the value is      *)
(* truthy, whatever it carried before; and for every signal notified       *)
(* during the call, a target it was the last to flag carries 'visible'     *)
(* iff its value is truthy.  The falsy values are 0, "", null, undefined,  *)
(* false and NaN.                                                          *)
(***************************************************************************)
C6_Falsy == {Num(0), Str(""), Null, Undefined, Bool(FALSE), NaN}

C6_LastFlagger(el) ==
  LET writes == SelectSeq(trace, LAMBDA e : e.k = "class" /\ e.el = el)
  IN  IF writes = <<>> THEN 0 ELSE writes[Len(writes)].sig

C6_Flagged(sig) ==
  \A i \in 1..Len(checkers[sig]) :
    visible[checkers[sig][i]] <=> Get(Heap, sig) \notin C6_Falsy

C6_VisibleIffTruthy ==
  /\ last.op \in Writes => C6_Flagged(last.sig)
  /\ \A sig \in Signals :
       \A i \in 1..Len(checkers[sig]) :
         C6_LastFlagger(checkers[sig][i]) = sig =>
           (visible[checkers[sig][i]] <=> Get(Heap, sig) \notin C6_Falsy)

C6_Witness ==
  /\ last.op = "set"
  /\ last.arg = Str("0")
  /\ Len(checkers[last.sig]) = 1
  /\ visible[checkers[last.sig][1]]
  /\ \E sig \in Signals :
       /\ IsComputed(sig)
       /\ TimesNotified(sig) > 0
       /\ Get(Heap, sig) = Bool(FALSE)
       /\ ~visible[checkers[sig][1]]

(***************************************************************************)
(* C7: the object createComputed returns has get and subscribe only, and   *)
(* a computed signal's value changes only in a set or update of another    *)
(* signal, by a recomputation that call's notifications ran.               *)
(***************************************************************************)
C7_ComputedIsReadOnly ==
  [][\A sig \in Signals :
       IsComputed(sig) =>
         /\ methods'[sig] = {"get", "subscribe"}
         /\ value'[sig] # value[sig] =>
              /\ last'.op \in {"set", "update"}
              /\ last'.sig # sig
              /\ ~IsComputed(last'.sig)
              /\ \E i \in 1..Len(trace') :
                   /\ trace'[i].k = "compute"
                   /\ trace'[i].sig = sig
                   /\ trace'[i].cb.k = "recompute"]_vars

C7_Witness ==
  /\ last.op = "set"
  /\ \E sig \in Signals :
       /\ IsComputed(sig)
       /\ methods[sig] = {"get", "subscribe"}
       /\ TimesComputed(sig) = 1
       /\ Get(Heap, sig) = Bool(TRUE)
       /\ Len(subscribers[sig]) > 0

(***************************************************************************)
(* C8 as stated: in a set or update, computeFn of a computed signal runs   *)
(* as many times as its dependencies notified, each dependency counted     *)
(* once, and every subscriber of the computed signal is invoked that many  *)
(* times.                                                                  *)
(***************************************************************************)
C8_Range(deps) == {deps[i] : i \in 1..Len(deps)}

RECURSIVE C8_Sum(_, _)
C8_Sum(f, S) ==
  IF S = {} THEN 0
  ELSE LET x == CHOOSE y \in S : TRUE IN f[x] + C8_Sum(f, S \ {x})

C8_NotificationsOfSignals(deps) ==
  C8_Sum([sig \in C8_Range(deps) |-> TimesNotified(sig)], C8_Range(deps))

C8_OncePerDependencySignal ==
  last.op \in {"set", "update"} =>
    \A sig \in Signals :
      IsComputed(sig) =>
        /\ TimesComputed(sig) = C8_NotificationsOfSignals(computed[sig].deps)
        /\ \A i \in 1..Len(subscribers[sig]) :
             TimesInvoked(sig, subscribers[sig][i])
               = C8_NotificationsOfSignals(computed[sig].deps)

(***************************************************************************)
(* C8 amended: in a set or update, computeFn of a computed signal runs     *)
(* once per notification of each entry of its dependency list (a signal    *)
(* listed twice counts twice), and every callback subscribed to the        *)
(* computed signal is invoked once per run.                                *)
(***************************************************************************)
C8_NotificationsOfEntries(deps) ==
  C8_Sum([i \in 1..Len(deps) |-> TimesNotified(deps[i])], 1..Len(deps))

C8_OncePerDependencyEntry ==
  last.op \in {"set", "update"} =>
    \A sig \in Signals :
      IsComputed(sig) =>
        /\ TimesComputed(sig) = C8_NotificationsOfEntries(computed[sig].deps)
        /\ TimesNotified(sig) = TimesComputed(sig)
        /\ \A i \in 1..Len(subscribers[sig]) :
             TimesInvoked(sig, subscribers[sig][i]) = TimesComputed(sig)

C8_Witness ==
  /\ last.op = "set"
  /\ \E sig \in Signals :
       /\ IsComputed(sig)
       /\ Len(computed[sig].deps) = 2
       /\ computed[sig].deps[1] # computed[sig].deps[2]
       /\ TimesNotified(computed[sig].deps[1]) = 1
       /\ TimesNotified(computed[sig].deps[2]) = 1
       /\ TimesComputed(sig) = 2
       /\ IsSubscribed(sig, UserCallback(1))
       /\ TimesInvoked(sig, UserCallback(1)) = 2

(***************************************************************************)
(* C9: set(newValue) with newValue identical to the current value still    *)
(* runs a full pass: every subscriber is invoked once and every display    *)
(* and visibility target is written.                                       *)
(***************************************************************************)
C9_Written(k, sig, el) ==
  \E i \in 1..Len(trace) : trace[i].k = k /\ trace[i].sig = sig /\ trace[i].el = el

C9_SameValueStillNotifies ==
  last.op = "set" /\ last.same =>
    /\ TimesNotified(last.sig) = 1
    /\ \A i \in 1..Len(subscribers[last.sig]) :
         TimesInvoked(last.sig, subscribers[last.sig][i]) = 1
    /\ \A i \in 1..Len(readers[last.sig]) :
         C9_Written("text", last.sig, readers[last.sig][i])
    /\ \A i \in 1..Len(checkers[last.sig]) :
         C9_Written("class", last.sig, checkers[last.sig][i])

C9_Witness ==
  /\ last.op = "set"
  /\ last.same
  /\ last.arg = Str("0")
  /\ IsSubscribed(last.sig, UserCallback(1))
  /\ TimesInvoked(last.sig, UserCallback(1)) = 1
  /\ C9_Written("text", last.sig, 1)
  /\ C9_Written("class", last.sig, 2)

(***************************************************************************)
(* C10: the same calls with every computed signal built by hand            *)
(* (createSignal(name, computeFn()) and one subscription per dependency)   *)
(* leave the same values, subscribers and targets, and do the same things  *)
(* in the same order.                                                      *)
(***************************************************************************)
C10_SameAsByHand ==
  /\ byHand.value = value
  /\ byHand.subscribers = subscribers
  /\ byHand.readers = readers
  /\ byHand.checkers = checkers
  /\ byHand.innerText = innerText
  /\ byHand.visible = visible
  /\ byHand.trace = trace

C10_Witness ==
  /\ last.op = "update"
  /\ \E sig \in Signals :
       /\ IsComputed(sig)
       /\ Len(computed[sig].deps) = 2
       /\ TimesComputed(sig) = 2
       /\ byHand.value[sig] = Bool(TRUE)
       /\ TimesInvoked(sig, UserCallback(1)) = 2
       /\ byHand.trace = trace

(***************************************************************************)
(* C11: when createSignal, createComputed, set or update returns, every    *)
(* element tagged data-signal-check with the signal's name that was in the *)
(* document when the signal was created is hidden iff the signal's value   *)
(* is not truthy.                                                          *)
(***************************************************************************)
C11_CheckElementHiddenUnlessTruthy ==
  last.op \in Writes =>
    \A el \in present :
      Document[el].attr = "data-signal-check"
        /\ Document[el].name = NameOfSignal(last.sig) =>
          (Hidden(el) <=> ~ToBoolean(Get(Heap, last.sig)))

(***************************************************************************)
(* C12: a callback that calls its own unsubscribe handle while it is being *)
(* invoked does not disturb the pass.  In a call that does not throw,      *)
(* every pass invokes each callback still registered exactly once, in      *)
(* registration order, invokes no callback twice and writes every display  *)
(* and visibility target of its signal; the callback that unsubscribed     *)
(* itself is registered no more, is invoked once at most in the call and   *)
(* not at all in the calls that follow.                                    *)
(***************************************************************************)
C12_Stop(sig) == EffectCallback("stop", 0, sig)

C12_Registered(sig) == {subscribers[sig][i] : i \in 1..Len(subscribers[sig])}

C12_PassIntact(p) ==
  LET sig == trace[p].sig
      reached == SelectSeq(CallsOf(p), LAMBDA e : e.cb \in C12_Registered(sig))
  IN  /\ \A i \in 1..Len(CallsOf(p)) : CallsIn(p, CallsOf(p)[i].cb) = 1
      /\ Len(reached) = Len(subscribers[sig])
      /\ \A i \in 1..Len(reached) : reached[i].cb = subscribers[sig][i]
      /\ \A i \in 1..Len(readers[sig]) : WroteIn(p, "text", readers[sig][i])
      /\ \A i \in 1..Len(checkers[sig]) : WroteIn(p, "class", checkers[sig][i])
      /\ TimesInvoked(sig, C12_Stop(sig)) <= 1
      /\ ~IsSubscribed(sig, C12_Stop(sig))

C12_PassesIntact == ~CallThrew => \A p \in Passes : C12_PassIntact(p)

C12_SelfUnsubscribeIsSafe ==
  [][/\ C12_PassesIntact'
     /\ \A sig \in Signals :
          ~IsSubscribed(sig, C12_Stop(sig)) => TimesInvoked(sig, C12_Stop(sig))' = 0]_vars

C12_Witness ==
  /\ last.op = "set"
  /\ ~CallThrew
  /\ Len(CallsOf(1)) = 3
  /\ CallsOf(1)[1].cb = UserCallback(1)
  /\ CallsOf(1)[2].cb = C12_Stop(last.sig)
  /\ CallsOf(1)[3].cb.k = "recompute"
  /\ WroteIn(1, "text", 1)
  /\ WroteIn(1, "class", 2)
  /\ ~IsSubscribed(last.sig, C12_Stop(last.sig))

(***************************************************************************)
(* C13: an exception thrown by a subscriber (a callback, or the closure    *)
(* that recomputes a computed signal) is the last thing the call does: it  *)
(* comes out of the set or update that started the pass, and every pass it *)
(* went through stops there.  In each such pass the subscribers before the *)
(* one that failed have been invoked once, those after it not at all, and  *)
(* no display or visibility target of the pass's signal has been written;  *)
(* the value written last stays stored.                                    *)
(***************************************************************************)
C13_LastWritten(sig) ==
  LET passes == SelectSeq(trace, LAMBDA e : e.k = "notify" /\ e.sig = sig)
  IN  passes[Len(passes)].v

C13_AbortedAtThrow(p) ==
  LET sig == trace[p].sig
      calls == CallsOf(p)
      failed == calls[Len(calls)].cb
  IN  /\ calls # <<>>
      /\ \A i \in 1..Len(readers[sig]) : ~WroteIn(p, "text", readers[sig][i])
      /\ \A i \in 1..Len(checkers[sig]) : ~WroteIn(p, "class", checkers[sig][i])
      /\ \E i \in 1..Len(subscribers[sig]) :
           /\ subscribers[sig][i] = failed
           /\ \A j \in 1..(i - 1) : CallsIn(p, subscribers[sig][j]) = 1
           /\ \A j \in (i + 1)..Len(subscribers[sig]) :
                CallsIn(p, subscribers[sig][j]) = 0

C13_ThrowAbortsPass ==
  /\ \A i \in 1..Len(trace) : trace[i].k = "throw" => i = Len(trace)
  /\ CallThrew =>
       /\ last.op \in {"set", "update"}
       /\ Get(Heap, last.sig) = C13_LastWritten(last.sig)
       /\ Aborted(1)
       /\ Aborted(trace[Len(trace)].pass)
       /\ trace[Len(trace)].cb = CallsOf(trace[Len(trace)].pass)[
                                    Len(CallsOf(trace[Len(trace)].pass))].cb
       /\ \A p \in Passes : Aborted(p) => C13_AbortedAtThrow(p)

C13_Witness ==
  /\ last.op = "set"
  /\ CallThrew
  /\ Len(subscribers[1]) = 3
  /\ subscribers[1][1] = UserCallback(1)
  /\ subscribers[1][2].k = "throw"
  /\ subscribers[1][3].k = "recompute"
  /\ CallsIn(1, subscribers[1][1]) = 1
  /\ CallsIn(1, subscribers[1][3]) = 0
  /\ Len(readers[1]) = 1
  /\ Get(Heap, 1) = last.arg
  /\ innerText[readers[1][1]] # TemplateLiteral(Get(Heap, 1))

(***************************************************************************)
(* C14: subscribe(fn) with an fn the signal holds already changes nothing: *)
(* no signal holds a callback twice, and every pass invokes a callback it  *)
(* holds once (at most once if the pass is aborted), however many times    *)
(* the callback was subscribed.                                            *)
(***************************************************************************)
C14_HeldOnce ==
  \A sig \in Signals :
    \A i, j \in 1..Len(subscribers[sig]) :
      subscribers[sig][i] = subscribers[sig][j] => i = j

C14_InvokedOnce ==
  \A p \in Passes :
    \A i \in 1..Len(subscribers[trace[p].sig]) :
      /\ CallsIn(p, subscribers[trace[p].sig][i]) <= 1
      /\ ~Aborted(p) => CallsIn(p, subscribers[trace[p].sig][i]) = 1

C14_SetSemantics ==
  [][/\ last'.op = "subscribe" /\ last'.same => subscribers' = subscribers
     /\ C14_HeldOnce'
     /\ C14_InvokedOnce']_vars

C14_Witness ==
  /\ last.op = "set"
  /\ ~CallThrew
  /\ Registered(1, UserCallback(1)) = 2
  /\ Len(subscribers[1]) = 3
  /\ CallsIn(1, UserCallback(1)) = 1

(***************************************************************************)
(* C15: a call of a subscription handle removes its callback from the Set  *)
(* of its signal and nothing else: the other callbacks of that signal stay *)
(* in their order, the Sets of the other signals are unchanged even when   *)
(* they hold the same callback, and nothing is invoked or written.  A call *)
(* of a handle whose callback is no longer registered changes no Set.      *)
(***************************************************************************)
C15_HandleRemovesOneFromOne ==
  [][last'.op = "unsubscribe" =>
       /\ \A sig \in Signals \ {last'.sig} : subscribers'[sig] = subscribers[sig]
       /\ subscribers'[last'.sig]
            = SelectSeq(subscribers[last'.sig], LAMBDA x : x # last'.cb)
       /\ Len(subscribers'[last'.sig])
            = Len(subscribers[last'.sig]) - (IF last'.same THEN 0 ELSE 1)
       /\ last'.same => subscribers' = subscribers
       /\ trace' = <<>>
       /\ UNCHANGED << value, innerText, visible >>]_vars

C15_Witness ==
  /\ last.op = "unsubscribe"
  /\ last.same
  /\ last.cb = UserCallback(1)
  /\ last.sig = 1
  /\ Len(value) = 2
  /\ Len(subscribers[1]) = 2
  /\ IsSubscribed(2, UserCallback(1))

(***************************************************************************)
(* C16: a pass walks the subscribers as they were when it started: a       *)
(* callback that one of the signal's subscribers subscribes to the signal  *)
(* during a pass is not invoked by that pass.                              *)
(***************************************************************************)
C16_PassIsSnapshotted ==
  \A i \in 1..Len(trace) :
    /\ trace[i].k = "subscribe"
    /\ trace[i].v = Bool(TRUE)
    /\ trace[trace[i].pass].sig = trace[i].sig
    => CallsIn(trace[i].pass, trace[i].cb) = 0

(***************************************************************************)
(* C17: every pass does its steps in one order: it invokes the signal's    *)
(* subscribers in the order of their registration, then writes the         *)
(* signal's display targets, then flags its visibility targets, each list  *)
(* in document order and in full when the pass runs to its end.  Whatever  *)
(* the subscribers started, the passes of computed signals among it, is    *)
(* over before the pass writes its first target.                           *)
(***************************************************************************)
C17_Rank(k) == CASE k = "call" -> 1 [] k = "text" -> 2 [] k = "class" -> 3

C17_Elements(p, k) ==
  LET steps == SelectSeq(trace, LAMBDA e : e.pass = p /\ e.k = k)
  IN  [i \in 1..Len(steps) |-> steps[i].el]

C17_InOrder(p) ==
  LET sig == trace[p].sig
      steps == StepsOf(p)
      reached == SelectSeq(CallsOf(p), LAMBDA e : IsSubscribed(sig, e.cb))
  IN  /\ \A i, j \in 1..Len(steps) :
           i < j => C17_Rank(steps[i].k) <= C17_Rank(steps[j].k)
      /\ \A i \in 1..Len(reached) :
           \E n \in 1..Len(subscribers[sig]) :
             /\ subscribers[sig][n] = reached[i].cb
             /\ \A j \in 1..(i - 1) :
                  \E m \in 1..(n - 1) : subscribers[sig][m] = reached[j].cb
      /\ ~Aborted(p) =>
           /\ Len(reached) = Len(subscribers[sig])
           /\ C17_Elements(p, "text") = readers[sig]
           /\ C17_Elements(p, "class") = checkers[sig]
      /\ \A i, j \in 1..Len(trace) :
           /\ trace[i].pass = p
           /\ trace[i].k \in {"text", "class"}
           /\ i < j
           => trace[j].pass <= p \/ trace[j].pass > i

C17_StepsInOrder == \A p \in Passes : C17_InOrder(p)

C17_Witness ==
  /\ last.op = "set"
  /\ ~CallThrew
  /\ Len(value) = 2
  /\ Len(StepsOf(1)) = 4
  /\ StepsOf(1)[1].cb = UserCallback(1)
  /\ StepsOf(1)[2].cb.k = "recompute"
  /\ StepsOf(1)[3].k = "text"
  /\ StepsOf(1)[4].k = "class"
  /\ \E q \in Passes :
       /\ trace[q].sig = 2
       /\ C17_Elements(q, "text") = <<3>>
       /\ C17_Elements(q, "class") = <<4>>
       /\ CallsIn(q, UserCallback(1)) = 1

(***************************************************************************)
(* C18: the display and visibility targets of a signal are the elements    *)
(* with its name that were in the document when it was created, and they   *)
(* never change.  An element appended after the signal was created is in   *)
(* neither list, and no set or update of the signal writes or flags it.    *)
(***************************************************************************)
C18_Bindings == {"data-signal-read", "data-signal-checker"}

C18_Bound(sig) ==
  {readers[sig][i] : i \in 1..Len(readers[sig])}
    \cup {checkers[sig][i] : i \in 1..Len(checkers[sig])}

\* The elements in the document that name the signal and are not its targets.
C18_Late(sig) ==
  {el \in present :
     /\ Document[el].attr \in C18_Bindings
     /\ Document[el].name = NameOfSignal(sig)
     /\ el \notin C18_Bound(sig)}

C18_TargetsCapturedOnce ==
  [][/\ \A sig \in Signals :
          /\ readers'[sig] = readers[sig]
          /\ checkers'[sig] = checkers[sig]
          /\ C18_Late(sig) \subseteq C18_Late(sig)'
     /\ \A sig \in 1..Len(value') :
          /\ sig \notin Signals => C18_Late(sig)' = {}
          /\ C18_Bound(sig)' \subseteq present'
          /\ \A el \in C18_Late(sig)' :
               /\ \A i \in 1..Len(trace') :
                    ~(trace'[i].sig = sig /\ trace'[i].el = el)
               /\ (\A other \in 1..Len(value') : el \notin C18_Bound(other)') =>
                    /\ innerText'[el] = innerText[el]
                    /\ visible'[el] = visible[el]
     /\ \A el \in Elements \ present :
          /\ \A sig \in 1..Len(value') : el \notin C18_Bound(sig)'
          /\ innerText'[el] = "" /\ ~visible'[el]]_vars

C18_Witness ==
  /\ last.op = "set"
  /\ last.arg = Num(1)
  /\ C18_Late(last.sig) = {1, 2}
  /\ innerText[1] = ""
  /\ ~visible[2]
  /\ \E sig \in Signals :
       /\ IsComputed(sig)
       /\ C18_Late(sig) = {}
       /\ innerText[3] = "true"
       /\ visible[4]

(***************************************************************************)
(* C19: the argument a subscriber of a signal is invoked with is the value *)
(* the signal holds at that moment, the one its last set or update so far  *)
(* has stored: after a callback of the pass has set the signal anew, the   *)
(* callbacks the pass invokes next get the value written anew.             *)
(***************************************************************************)
C19_ValueAt(sig, i) ==
  LET written == SelectSeq(SubSeq(trace, 1, i),
                           LAMBDA e : e.k = "notify" /\ e.sig = sig)
  IN  written[Len(written)].v

C19_ArgumentIsCurrentValue ==
  /\ \A i \in 1..Len(trace) :
       trace[i].k = "call" => trace[i].v = C19_ValueAt(trace[i].sig, i)
  /\ \A sig \in Signals :
       TimesNotified(sig) > 0 => Get(Heap, sig) = C19_ValueAt(sig, Len(trace))

C19_Witness ==
  /\ last.op = "set"
  /\ last.arg = Num(1)
  /\ Get(Heap, last.sig) = Num(0)
  /\ ~CallThrew
  /\ Len(CallsOf(1)) = 2
  /\ CallsOf(1)[1].cb.k = "set"
  /\ CallsOf(1)[1].v = Num(1)
  /\ CallsOf(1)[2].cb = UserCallback(1)
  /\ CallsOf(1)[2].v = Num(0)

(***************************************************************************)
(* C20: with computed signals built by createComputed and callbacks that   *)
(* write no signal, a recompute closure subscribed to a signal belongs to  *)
(* a signal created later, so the passes that run inside one another are   *)
(* passes of ever later signals, never more than there are signals; every  *)
(* set or update that has started comes to its end, and it ends with what  *)
(* the whole fan-out of the call gives.                                    *)
(***************************************************************************)
C20_Acyclic ==
  /\ \A sig \in Signals :
       /\ \A i \in 1..Len(computed[sig].deps) : computed[sig].deps[i] < sig
       /\ \A i \in 1..Len(subscribers[sig]) :
            subscribers[sig][i].k = "recompute" => subscribers[sig][i].target > sig
  /\ \A n \in 1..(Len(stack) - 1) : stack[n].sig > stack[n + 1].sig
  /\ Len(stack) <= Len(value)

C20_Returned ==
  stack = <<>> /\ last.op \in {"set", "update"} =>
    /\ trace = byHand.trace
    /\ value = byHand.value
    /\ innerText = byHand.innerText
    /\ visible = byHand.visible

C20_FanOutTerminates ==
  /\ [](C20_Acyclic /\ C20_Returned)
  /\ (stack # <<>>) ~> (stack = <<>>)

C20_Witness ==
  /\ stack = <<>>
  /\ last.op = "set"
  /\ Len(value) = 3
  /\ computed[2].deps = <<1>>
  /\ computed[3].deps = <<1, 2>>
  /\ TimesComputed(2) = 1
  /\ TimesComputed(3) = 2
  /\ IsSubscribed(3, UserCallback(1))
  /\ TimesInvoked(3, UserCallback(1)) = 2

====
